---- MODULE Spec2Model ----
(***************************************************************************)
(* A model of the ASIC Gazette scraper (src/mainGazzette2020.py).          *)
(*                                                                         *)
(* Strings.  A raw text handed over by the renderer (Element.text, an      *)
(* href attribute) is a sequence of characters, each a one-character       *)
(* string; the non-breaking space and the "&nbsp;" entity are each one     *)
(* element of such a sequence.  The results of _clean_text and             *)
(* _resolve_url are TLA+ strings, built by concatenation, so the field     *)
(* names and the values of a Record read as they do in the CSV file.       *)
(***************************************************************************)
EXTENDS Integers, Sequences, FiniteSets, TLC

VARIABLES
  max_links,      \* self.max_links: logical column -> occurrences seen so far
  all_data,       \* self.all_data: the accumulated Records
  row,            \* the row handed to the last _extract_row_data call
  result,         \* what that call returned: a Record, or None
  before,         \* self.max_links when that call started
  phase,          \* position of the row loop: "idle" | "parsed" | "table"
  tbl,            \* the last _extract_table_data call: [table, year, broken]
  tdata,          \* what that call returned
  pc,             \* position of main() and scrape_data()
  driver,         \* self.driver
  acquired,       \* browser sessions created (webdriver.Chrome returned)
  quit_calls,     \* calls of driver.quit()
  raised,         \* an exception is propagating out of main()
  year_elements,  \* scrape_data's year_elements: element ids in discovery order
  sel,            \* index of the next selector of selectors_to_try
  idx,            \* index of the anchor (or fallback table) in hand
  expand,         \* what the expansion step did, until association starts:
                  \* [aria, clicks, slept, failed]
  table,          \* _extract_year_data's table: a table id, or NoTable
  csel,           \* index of the next selector of content_selectors
  tables,         \* the fallback's tables: [id, displayed] in document order
  csv,            \* the file written: [headers, rows], or None
  queries,        \* the discovery queries made so far, each with what it added
  tried,          \* the association strategies run for the anchor in hand
  handled         \* the anchors (tables) processed so far: [unit, table, data]

rowvars == <<row, result, before, phase, tbl, tdata>>

runvars == <<pc, driver, acquired, quit_calls, raised, year_elements, sel, idx,
             expand, table, csel, tables, csv, queries, tried, handled>>

vars == <<max_links, all_data, rowvars, runvars>>

(***************************************************************************)
(* Bounds of the model.                                                    *)
(***************************************************************************)
\* hyperlinks in one cell
MaxLinks == 2

\* year anchors one discovery query returns
MaxAnchors == 2

(***************************************************************************)
(* Python values.                                                          *)
(***************************************************************************)
\* Python's None, also the empty dict: both are falsy in `if row_data:`
None == <<>>

Min(a, b) == IF a <= b THEN a ELSE b

Max(a, b) == IF a >= b THEN a ELSE b

\* U+00A0 as one character of a raw text
NBSP == "<U+00A0>"

\* the six characters "&nbsp;" taken as one element of a raw text
NBSP_ENTITY == "&nbsp;"

\* the characters str.split() splits on
Whitespace == {" ", "\t", "\n", NBSP}

RECURSIVE Concat(_)
\* the string spelled by a sequence of characters
Concat(chars) ==
  IF chars = <<>> THEN "" ELSE Head(chars) \o Concat(Tail(chars))

RECURSIVE SplitWords(_, _)
\* str.split(): the maximal runs of non-whitespace characters, each a sequence
\* of characters; cur is the run being read
SplitWords(chars, cur) ==
  IF chars = <<>>
  THEN (IF cur = <<>> THEN <<>> ELSE <<cur>>)
  ELSE IF Head(chars) \in Whitespace
       THEN (IF cur = <<>> THEN <<>> ELSE <<cur>>) \o SplitWords(Tail(chars), <<>>)
       ELSE SplitWords(Tail(chars), Append(cur, Head(chars)))

RECURSIVE JoinChars(_, _)
\* sep.join(words), as a sequence of characters
JoinChars(sep, words) ==
  IF words = <<>> THEN <<>>
  ELSE IF Len(words) = 1 THEN words[1]
  ELSE words[1] \o sep \o JoinChars(sep, Tail(words))

RECURSIVE Join(_, _)
\* sep.join(words), of strings
Join(sep, words) ==
  IF words = <<>> THEN ""
  ELSE IF Len(words) = 1 THEN words[1]
  ELSE words[1] \o sep \o Join(sep, Tail(words))

\* text.replace(NBSP, ' ').replace('&nbsp;', ' ')
ReplaceNbsp(text) ==
  [n \in DOMAIN text |-> IF text[n] \in {NBSP, NBSP_ENTITY} THEN " " ELSE text[n]]

\* the characters of _clean_text(text): ' '.join(cleaned.split()).strip()
CleanChars(text) ==
  IF text = <<>> THEN <<>> ELSE JoinChars(<<" ">>, SplitWords(ReplaceNbsp(text), <<>>))

\* ASICGazetteScraper._clean_text
_clean_text(text) == Concat(CleanChars(text))

RECURSIVE LStrip(_)
LStrip(chars) ==
  IF chars # <<>> /\ Head(chars) \in Whitespace THEN LStrip(Tail(chars)) ELSE chars

RECURSIVE RStrip(_)
RStrip(chars) ==
  IF chars # <<>> /\ chars[Len(chars)] \in Whitespace
  THEN RStrip(SubSeq(chars, 1, Len(chars) - 1))
  ELSE chars

\* str.strip()
Strip(chars) == RStrip(LStrip(chars))

\* ScraperConfig.base_url as main() sets it
base_url == "https://asic.gov.au"

\* url.startswith('http'): the scheme is the first element of a raw URL
StartsWithHttp(url) == url # <<>> /\ url[1] \in {"http://", "https://"}

\* urljoin(base_url, url) for a path-absolute reference and a base without a path
urljoin(base, url) == base \o Concat(url)

\* ASICGazetteScraper._resolve_url
_resolve_url(url) ==
  IF url = <<>> THEN ""
  ELSE IF StartsWithHttp(url) THEN Concat(url)
  ELSE urljoin(base_url, url)

(***************************************************************************)
(* The DOM of a row.  A cell is [own, links, detached]: its own text, its  *)
(* hyperlinks in document order, each [text, href] with href = <<>> for a  *)
(* link without the attribute, and whether reading it raises.              *)
(***************************************************************************)
RECURSIVE LinkTexts(_)
LinkTexts(links) ==
  IF links = <<>> THEN <<>>
  ELSE <<" ">> \o Head(links).text \o LinkTexts(Tail(links))

\* cell.text: the cell's visible text, its own text and then that of its links
VisibleText(cell) == cell.own \o LinkTexts(cell.links)

RECURSIVE LinkUrls(_)
\* for link in links: url = link.get_attribute("href"); if url: urls.append(...)
LinkUrls(links) ==
  IF links = <<>> THEN <<>>
  ELSE (IF Head(links).href # <<>>
        THEN <<_resolve_url(Strip(Head(links).href))>>
        ELSE <<>>) \o LinkUrls(Tail(links))

RECURSIVE LinkTitles(_)
\* for link in links: title = _clean_text(link.text); if title: titles.append(title)
LinkTitles(links) ==
  IF links = <<>> THEN <<>>
  ELSE (IF _clean_text(Head(links).text) # ""
        THEN <<_clean_text(Head(links).text)>>
        ELSE <<>>) \o LinkTitles(Tail(links))

\* ASICGazetteScraper._extract_cell_content: <<full_text, urls>>
_extract_cell_content(cell) ==
  IF cell.detached
  THEN <<"", <<>>>>
  ELSE <<_clean_text(VisibleText(cell)), LinkUrls(cell.links)>>

\* ASICGazetteScraper._extract_multiple_links_data: <<titles, urls>>
_extract_multiple_links_data(cell) ==
  IF cell.detached THEN <<<<>>, <<>>>>
  ELSE IF cell.links = <<>> THEN <<<<>>, <<>>>>
  ELSE <<LinkTitles(cell.links), LinkUrls(cell.links)>>

(***************************************************************************)
(* The Row Parser.  A row is [cells, stale, th]: its td cells in document  *)
(* order, whether row.find_elements raises, and whether it holds a th      *)
(* cell.  Reading the text of a detached date cell raises too; both end    *)
(* the call with None.                                                     *)
(***************************************************************************)
ASIC == "ASIC Gazette"

Business == "Business Gazette"

Notes == "Other / Notes"

Columns == {ASIC, Business, Notes}

\* the title field of occurrence i of a Gazette column
TitleKey(col, i) == IF i = 0 THEN col \o "_title" ELSE col \o "_" \o ToString(i)

\* the URL field of occurrence i of a Gazette column
UrlKey(col, i) == IF i = 0 THEN col \o "_Url" ELSE col \o "_Url_" \o ToString(i)

\* the text field of occurrence i of Other / Notes
NotesKey(i) == IF i = 0 THEN Notes ELSE Notes \o "_" \o ToString(i)

\* the URL field of occurrence i of Other / Notes
NotesUrlKey(i) == IF i = 0 THEN Notes \o "_URL" ELSE Notes \o "_URL_" \o ToString(i)

\* "If no links but has text, use text as title": <<titles, link_urls>>
GazetteTitles(cell) ==
  LET text   == _extract_cell_content(cell)[1]
      titles == _extract_multiple_links_data(cell)[1]
      urls   == _extract_multiple_links_data(cell)[2]
  IN  IF titles = <<>> /\ text # "" THEN <<<<text>>, <<"">>>>
      ELSE IF titles = <<>> THEN <<<<"">>, <<"">>>>
      ELSE <<titles, urls>>

\* for i, (title, url) in enumerate(zip(titles, link_urls)): result[...] = ...
StoreGazette(col, titles, urls) ==
  LET n == Min(Len(titles), Len(urls))
  IN  [k \in {TitleKey(col, i) : i \in 0..(n - 1)} \cup {UrlKey(col, i) : i \in 0..(n - 1)} |->
         LET i == CHOOSE j \in 0..(n - 1) : k \in {TitleKey(col, j), UrlKey(col, j)}
         IN  IF k = TitleKey(col, i) THEN titles[i + 1] ELSE urls[i + 1]]

\* NotesCount counting the texts only
NotesCount_TextsOnly(texts, urls) == Len(texts)

\* max_other_items = max(len(other_notes_texts), len(other_notes_urls))
NotesCount(texts, urls) == Max(Len(texts), Len(urls))

\* self.max_links[col] = max(self.max_links[col], len(titles))
GazetteCount(titles, urls) == Len(titles)

\* the 4-column layout: <<other_notes_texts, other_notes_urls>>
NotesFour(cell) ==
  LET notes_text      == _extract_cell_content(cell)[1]
      notes_link_urls == _extract_multiple_links_data(cell)[2]
  IN  IF notes_text # ""
      THEN <<<<notes_text>>, IF notes_link_urls # <<>> THEN notes_link_urls ELSE <<"">>>>
      ELSE <<<<>>, <<>>>>

\* NotesFive with the two link lists joined in the other order
NotesFive_NotesLinksFirst(other, notes) ==
  LET other_text      == _extract_cell_content(other)[1]
      other_link_urls == _extract_multiple_links_data(other)[2]
      notes_text      == _extract_cell_content(notes)[1]
      notes_link_urls == _extract_multiple_links_data(notes)[2]
      combined_texts  == (IF other_text # "" THEN <<other_text>> ELSE <<>>)
                         \o (IF notes_text # "" THEN <<notes_text>> ELSE <<>>)
      combined_urls   == notes_link_urls \o other_link_urls
  IN  IF combined_texts # <<>>
      THEN <<<<Join(". ", combined_texts)>>, combined_urls>>
      ELSE <<<<>>, <<>>>>

\* the 5-column layout: <<other_notes_texts, other_notes_urls>>
NotesFive(other, notes) ==
  LET other_text      == _extract_cell_content(other)[1]
      other_link_urls == _extract_multiple_links_data(other)[2]
      notes_text      == _extract_cell_content(notes)[1]
      notes_link_urls == _extract_multiple_links_data(notes)[2]
      combined_texts  == (IF other_text # "" THEN <<other_text>> ELSE <<>>)
                         \o (IF notes_text # "" THEN <<notes_text>> ELSE <<>>)
      combined_urls   == other_link_urls \o notes_link_urls
  IN  IF combined_texts # <<>>
      THEN <<<<Join(". ", combined_texts)>>, combined_urls>>
      ELSE <<<<>>, <<>>>>

\* "Store Other/Notes data"
StoreNotes(texts, urls) ==
  IF texts # <<>>
  THEN [k \in {NotesKey(i) : i \in 0..(Len(texts) - 1)}
              \cup {NotesUrlKey(i) : i \in 0..(Max(Len(texts), Len(urls)) - 1)} |->
          IF \E i \in 0..(Len(texts) - 1) : k = NotesKey(i)
          THEN texts[(CHOOSE i \in 0..(Len(texts) - 1) : k = NotesKey(i)) + 1]
          ELSE LET i == CHOOSE j \in 0..(Max(Len(texts), Len(urls)) - 1) : k = NotesUrlKey(j)
               IN  IF i < Len(urls) THEN urls[i + 1] ELSE ""]
  ELSE (Notes :> "") @@ (NotesUrlKey(0) :> "")

\* a Record need at least this many cells
MinCells == 4

\* ASICGazetteScraper._extract_row_data: [result, max_links]
_extract_row_data(r, year, ml) ==
  IF r.stale \/ Len(r.cells) < MinCells \/ r.cells[1].detached
  THEN [result |-> None, max_links |-> ml]
  ELSE LET cells    == r.cells
           asic     == GazetteTitles(cells[2])
           business == GazetteTitles(cells[3])
           other    == IF Len(cells) = 4 THEN NotesFour(cells[4])
                       ELSE NotesFive(cells[4], cells[5])
       IN  [result |->
              StoreNotes(other[1], other[2])
              @@ StoreGazette(Business, business[1], business[2])
              @@ StoreGazette(ASIC, asic[1], asic[2])
              @@ ("Year" :> year) @@ ("Date" :> _clean_text(VisibleText(cells[1]))),
            max_links |->
              [c \in Columns |->
                 Max(ml[c], CASE c = ASIC     -> GazetteCount(asic[1], asic[2])
                              [] c = Business -> GazetteCount(business[1], business[2])
                              [] c = Notes    -> NotesCount(other[1], other[2]))]]

(***************************************************************************)
(* The rows the Row Parser is run on.  A link of kind "full" has a text    *)
(* and an href, "notitle" an href and no text (an image link), "nohref" a  *)
(* text and no href.  Texts and hrefs carry the cell's tag and the link's  *)
(* position, so that every link of a row is told from the others; hrefs at *)
(* odd positions are relative, those at even positions absolute.           *)
(***************************************************************************)
LinkKinds == {"full", "notitle", "nohref"}

MkLink(kind, tag, pos) ==
  [text |-> IF kind = "notitle" THEN <<" ">> ELSE <<tag, NBSP, ToString(pos)>>,
   href |-> IF kind = "nohref" THEN <<>>
            ELSE IF pos % 2 = 1 THEN <<" ", "/", tag, ToString(pos), " ">>
            ELSE <<"https://", "x.org/", tag, ToString(pos)>>]

\* the sequences of at most n link kinds
KindSeqs(n) == UNION {[1..m -> LinkKinds] : m \in 0..n}

\* a cell's own text: none, blank, or two words
OwnTexts == {<<>>, <<NBSP_ENTITY, " ">>, <<"n", " ", "\n", "t">>}

MkCell(own, kinds, tag) ==
  [own |-> own,
   links |-> [p \in 1..Len(kinds) |-> MkLink(kinds[p], tag, p)],
   detached |-> FALSE]

\* a cell whose reading raises
Detached(tag) == [own |-> <<"n">>, links |-> <<MkLink("full", tag, 1)>>, detached |-> TRUE]

\* the cells tagged tag with at most n links
Cells(tag, n) ==
  {MkCell(own, kinds, tag) : own \in OwnTexts, kinds \in KindSeqs(n)} \cup {Detached(tag)}

\* a cell with one full link
Plain(tag) == MkCell(<<>>, <<"full">>, tag)

DateCell == MkCell(<<"1", NBSP, "Jan">>, <<>>, "d")

\* rows of n cells that differ from the plain row in the cells at positions ps
RowsVarying(n, ps) ==
  {[cells |-> [p \in 1..n |->
                 CASE p = 1 -> DateCell
                   [] p = 2 -> IF 2 \in ps THEN a ELSE Plain("a")
                   [] p = 3 -> IF 3 \in ps THEN b ELSE Plain("b")
                   [] p = 4 -> IF 4 \in ps THEN o ELSE Plain("o")
                   [] p = 5 -> IF 5 \in ps THEN t ELSE Plain("t")
                   [] OTHER -> Plain("z")],
    stale |-> FALSE,
    th |-> FALSE] :
     a \in (IF 2 \in ps THEN Cells("a", MaxLinks) ELSE {Plain("a")}),
     b \in (IF 3 \in ps THEN Cells("b", MaxLinks) ELSE {Plain("b")}),
     o \in (IF 4 \in ps THEN Cells("o", IF 5 \in ps THEN 1 ELSE MaxLinks) ELSE {Plain("o")}),
     t \in (IF 5 \in ps THEN Cells("t", MaxLinks) ELSE {Plain("t")})}

Rows ==
  RowsVarying(3, {}) \cup RowsVarying(4, {2}) \cup RowsVarying(4, {3})
  \cup RowsVarying(4, {4}) \cup RowsVarying(5, {4}) \cup RowsVarying(5, {4, 5})
  \cup RowsVarying(6, {5})
  \cup {[r EXCEPT !.stale = TRUE] : r \in RowsVarying(4, {})}
  \cup {[r EXCEPT !.cells[1].detached = TRUE] : r \in RowsVarying(5, {})}

Years == {"2020", "Unknown"}

(***************************************************************************)
(* The Table Parser.  A table is [tbody, rows]: whether it has a tbody,    *)
(* and its tr rows in document order (those of the tbody when it has one). *)
(***************************************************************************)
RECURSIVE ParseRows(_, _, _)
\* for row in rows: row_data = self._extract_row_data(row, year);
\* if row_data: data_rows.append(row_data)
ParseRows(rows, year, ml) ==
  IF rows = <<>> THEN [data |-> <<>>, max_links |-> ml]
  ELSE LET first == _extract_row_data(Head(rows), year, ml)
           rest  == ParseRows(Tail(rows), year, first.max_links)
       IN  [data |-> (IF first.result # None THEN <<first.result>> ELSE <<>>) \o rest.data,
            max_links |-> rest.max_links]

\* rows = [row for row in rows if not row.find_elements(By.TAG_NAME, "th")]
\* raises on a row whose find_elements raises
FilterRaises(rows) == \E n \in DOMAIN rows : rows[n].stale

\* ASICGazetteScraper._extract_table_data: [data, max_links]; t is the table,
\* broken: looking up the tbody or the rows raises something other than
\* NoSuchElementException
_extract_table_data(t, year, ml, broken) ==
  IF broken \/ (~t.tbody /\ FilterRaises(t.rows))
  THEN [data |-> <<>>, max_links |-> ml]
  ELSE ParseRows(IF t.tbody THEN t.rows
                 ELSE SelectSeq(t.rows, LAMBDA r : ~r.th),
                 year, ml)

(***************************************************************************)
(* The Schema Widener.                                                     *)
(***************************************************************************)
\* for i in range(1, n): headers.extend([f'{col}_{i}', f'{col}_Url_{i}'])
IndexedHeaders(title, url, n) ==
  [j \in 1..(2 * (Max(n, 1) - 1)) |->
     IF j % 2 = 1 THEN title \o "_" \o ToString((j + 1) \div 2)
     ELSE url \o "_" \o ToString(j \div 2)]

\* ASICGazetteScraper._generate_csv_headers
_generate_csv_headers(ml) ==
  <<"Year", "Date">>
  \o <<"ASIC Gazette_title", "ASIC Gazette_Url">>
  \o IndexedHeaders("ASIC Gazette", "ASIC Gazette_Url", ml["ASIC Gazette"])
  \o <<"Business Gazette_title", "Business Gazette_Url">>
  \o IndexedHeaders("Business Gazette", "Business Gazette_Url", ml["Business Gazette"])
  \o <<"Other / Notes", "Other / Notes_URL">>
  \o IndexedHeaders("Other / Notes", "Other / Notes_URL", ml["Other / Notes"])

\* ASICGazetteScraper._normalize_row_data: the dict as its <<key, value>> pairs
\* in insertion order
_normalize_row_data(row_data, headers) ==
  [n \in 1..Len(headers) |->
     <<headers[n], IF headers[n] \in DOMAIN row_data THEN row_data[headers[n]] ELSE "">>]

(***************************************************************************)
(* Year texts.                                                             *)
(***************************************************************************)
\* does pat occur in text
Contains(text, pat) ==
  \E i \in 0..(Len(text) - Len(pat)) : SubSeq(text, i + 1, i + Len(pat)) = pat

\* the decimal digits of a four-digit number
Digits(n) ==
  <<ToString(n \div 1000), ToString((n \div 100) % 10),
    ToString((n \div 10) % 10), ToString(n % 10)>>

\* ['2020', '2019', ..., '2011']
year_list == [n \in 1..10 |-> Digits(2021 - n)]

\* any(year_str in text for year_str in [...])
HasListedYear(text) == \E n \in 1..10 : Contains(text, year_list[n])

\* text.isdigit()
IsDigit(text) ==
  text # <<>> /\ \A n \in 1..Len(text) : \E d \in 0..9 : text[n] = ToString(d)

RECURSIVE IntOf(_)
\* int(text)
IntOf(text) ==
  IF text = <<>> THEN 0
  ELSE 10 * IntOf(SubSeq(text, 1, Len(text) - 1))
       + (CHOOSE d \in 0..9 : text[Len(text)] = ToString(d))

\* text.isdigit() and len(text) == 4 and 2011 <= int(text) <= 2025
IsYearNumeral(text) ==
  IsDigit(text) /\ Len(text) = 4 /\ 2011 <= IntOf(text) /\ IntOf(text) <= 2025

\* year = "Unknown"; for potential_year in [...]: if potential_year in year_text: ...
YearLabel(text) ==
  IF HasListedYear(text)
  THEN Concat(year_list[CHOOSE n \in 1..10 :
                 /\ Contains(text, year_list[n])
                 /\ \A m \in 1..(n - 1) : ~Contains(text, year_list[m])])
  ELSE "Unknown"

(***************************************************************************)
(* The page.  Its candidate anchors are the elements 1..MaxElems, with the *)
(* texts of ElemTexts in turn; its tables are 1..NumTables, with the       *)
(* contents of PageTables in turn.                                         *)
(***************************************************************************)
\* tables[:3]
FallbackLimit == 3

\* range(5)
SiblingSteps == 5

\* enough tables for the fallback to leave one out
NumTables == FallbackLimit + 1

TableIds == 1..NumTables

\* table = None
NoTable == 0

\* self.driver = None
NoDriver == "None"

\* enough elements for a query to leave one out
MaxElems == MaxAnchors + 1

Elems == 1..MaxElems

ElemTexts ==
  << <<"2", "0", "2", "0">>,
     <<"2", "0", "2", "3">>,
     <<"F", "Y", NBSP, "2", "0", "1", "9">>,
     <<"A", "b", "o", "u", "t">> >>

\* elem.text
ElemText(e) == ElemTexts[((e - 1) % Len(ElemTexts)) + 1]

\* what a find_elements query can return: distinct elements, in some order
Answers ==
  {a \in UNION {[1..n -> Elems] : n \in 0..MaxAnchors} :
     \A i, j \in DOMAIN a : i # j => a[i] # a[j]}

MkRow(a, b, rest) ==
  [cells |-> <<DateCell, a, b>> \o rest, stale |-> FALSE, th |-> FALSE]

\* a cell with n full links
Full(n, tag) == MkCell(<<>>, [p \in 1..n |-> "full"], tag)

\* a cell of text only
TextOnly == MkCell(<<"n", NBSP, "t">>, <<>>, "x")

PageTables ==
  << [tbody |-> TRUE,
      rows |-> << MkRow(Plain("a"), TextOnly, <<TextOnly>>),
                  MkRow(Full(MaxLinks, "a"), Plain("b"),
                        <<MkCell(<<"n">>, [p \in 1..MaxLinks |-> "full"], "o")>>),
                  [cells |-> <<DateCell, Plain("a"), Plain("b")>>,
                   stale |-> FALSE, th |-> FALSE] >>],
     [tbody |-> FALSE,
      rows |-> << [cells |-> <<>>, stale |-> FALSE, th |-> TRUE],
                  MkRow(Plain("a"), Full(MaxLinks, "b"),
                        <<MkCell(<<>>, <<"notitle">>, "o"),
                          MkCell(<<"F", "o", "o">>, <<"full">>, "t")>>),
                  MkRow(MkCell(<<>>, <<"full", "nohref">>, "a"), Plain("b"),
                        <<Plain("o")>>) >>],
     [tbody |-> TRUE,
      rows |-> << [MkRow(Plain("a"), Plain("b"), <<Plain("o")>>) EXCEPT !.stale = TRUE],
                  MkRow(MkCell(<<>>, <<"nohref">>, "a"),
                        MkCell(<<>>, <<>>, "b"),
                        <<MkCell(<<>>, <<>>, "o"), MkCell(<<>>, <<"full">>, "t")>>) >>] >>

\* the table element with id t
TableContent(t) == PageTables[((t - 1) % Len(PageTables)) + 1]

(***************************************************************************)
(* The run: main(), the context manager and scrape_data().                 *)
(***************************************************************************)
selectors_to_try ==
  << "button[aria-expanded]", ".accordion-button", ".year-header", "h2 button",
     "h3 button", "[data-bs-toggle='collapse']", "[data-toggle='collapse']",
     "a[href*='#']" >>

content_selectors ==
  << "[id*='collapse']", "[class*='collapse']", "[class*='accordion-content']",
     "[class*='content']" >>

\* no expansion step is on record
NoExpand == [aria |-> "unread", clicks |-> 0, slept |-> FALSE, failed |-> FALSE]

\* ASICGazetteScraper.__init__, and the locals of scrape_data before its first line
RunInit ==
  /\ pc = "enter"
  /\ driver = NoDriver
  /\ acquired = 0
  /\ quit_calls = 0
  /\ raised = FALSE
  /\ year_elements = <<>>
  /\ sel = 1
  /\ idx = 1
  /\ expand = NoExpand
  /\ table = NoTable
  /\ csel = 1
  /\ tables = <<>>
  /\ csv = None
  /\ queries = <<>>
  /\ tried = <<>>
  /\ handled = <<>>

RowInit ==
  /\ row = None
  /\ result = None
  /\ before = [c \in Columns |-> 1]
  /\ phase = "idle"
  /\ tbl = None
  /\ tdata = <<>>

Init ==
  /\ max_links = [c \in Columns |-> 1]
  /\ all_data = <<>>
  /\ RowInit
  /\ RunInit

\* __enter__ and _setup_driver.  An exception leaves the with statement before
\* its body, and __exit__ is not called.
SetupDriver ==
  /\ pc = "enter"
  /\ \/ /\ driver' = "Chrome"
        /\ acquired' = acquired + 1
        /\ pc' = "load"
        /\ UNCHANGED raised
     \/ \* webdriver.Chrome(...) raises
        /\ raised' = TRUE
        /\ pc' = "done"
        /\ UNCHANGED <<driver, acquired>>
     \/ \* self.driver.set_page_load_timeout(...) raises
        /\ driver' = "Chrome"
        /\ acquired' = acquired + 1
        /\ raised' = TRUE
        /\ pc' = "done"
  /\ UNCHANGED <<max_links, all_data, rowvars, quit_calls, year_elements, sel, idx,
                 expand, table, csel, tables, csv, queries, tried, handled>>

\* self.driver.get(...) and the wait for the body; a failure is re-raised
LoadPage ==
  /\ pc = "load"
  /\ \/ /\ pc' = "selectors"
        /\ UNCHANGED raised
     \/ /\ raised' = TRUE
        /\ pc' = "exit"
  /\ UNCHANGED <<max_links, all_data, rowvars, driver, acquired, quit_calls,
                 year_elements, sel, idx, expand, table, csel, tables, csv, queries,
                 tried, handled>>

\* the loop over the selectors without its break
SelectorHit_NoBreak(elems) == FALSE

\* if year_elements: break
SelectorHit(elems) == elems # <<>>

\* Approach 1, one selector of selectors_to_try
TrySelector ==
  /\ pc = "selectors"
  /\ \E elements \in Answers :
       LET kept  == SelectSeq(elements, LAMBDA e : HasListedYear(CleanChars(ElemText(e))))
           found == year_elements \o kept
       IN  /\ year_elements' = found
           /\ queries' = Append(queries, [by |-> selectors_to_try[sel], added |-> kept])
           /\ IF SelectorHit(found) \/ sel = Len(selectors_to_try)
              THEN pc' = "approach2" /\ UNCHANGED sel
              ELSE sel' = sel + 1 /\ UNCHANGED pc
  /\ UNCHANGED <<max_links, all_data, rowvars, driver, acquired, quit_calls, raised,
                 idx, expand, table, csel, tables, csv, tried, handled>>

\* if not year_elements:
NeedsFallback(elems) == elems = <<>>

\* Approach 2: elements whose whole text is a year numeral
Approach2 ==
  /\ pc = "approach2"
  /\ IF NeedsFallback(year_elements)
     THEN \E all_elements \in Answers :
            LET kept == SelectSeq(all_elements,
                                  LAMBDA e : IsYearNumeral(CleanChars(ElemText(e))))
            IN  /\ year_elements' = year_elements \o kept
                /\ queries' = Append(queries, [by |-> "//*[text()]", added |-> kept])
     ELSE UNCHANGED <<year_elements, queries>>
  /\ pc' = "approach3"
  /\ UNCHANGED <<max_links, all_data, rowvars, driver, acquired, quit_calls, raised,
                 sel, idx, expand, table, csel, tables, csv, tried, handled>>

RECURSIVE Flatten(_)
\* the concatenation of a sequence of sequences
Flatten(seqs) == IF seqs = <<>> THEN <<>> ELSE Head(seqs) \o Flatten(Tail(seqs))

\* what .//*[contains(text(), '20')] can return under the accordion containers:
\* one answer per container, MaxAnchors elements in all
ContainerAnswers ==
  {g \in UNION {[1..n -> Answers] : n \in 0..2} :
     /\ Len(Flatten(g)) <= MaxAnchors
     /\ \A n \in DOMAIN g : \A i \in DOMAIN g[n] :
          Contains(ElemText(g[n][i]), <<"2", "0">>)}

\* Approach 3: the accordion containers of the page source
Approach3 ==
  /\ pc = "approach3"
  /\ IF NeedsFallback(year_elements)
     THEN \E has_accordion \in BOOLEAN, year_buttons \in ContainerAnswers :
            LET kept == IF has_accordion THEN Flatten(year_buttons) ELSE <<>>
            IN  /\ year_elements' = year_elements \o kept
                /\ queries' = Append(queries, [by |-> "[class*='accordion']", added |-> kept])
     ELSE UNCHANGED <<year_elements, queries>>
  /\ pc' = "dispatch"
  /\ UNCHANGED <<max_links, all_data, rowvars, driver, acquired, quit_calls, raised,
                 sel, idx, expand, table, csel, tables, csv, tried, handled>>

\* if not year_elements: the fallback over the page's tables; else the anchor loop
Dispatch ==
  /\ pc = "dispatch"
  /\ IF NeedsFallback(year_elements)
     THEN \E n \in 0..NumTables : \E displayed \in [1..n -> BOOLEAN] :
            /\ tables' = [i \in 1..n |-> [id |-> i, displayed |-> displayed[i]]]
            /\ pc' = IF n = 0 THEN "save" ELSE "fallback"
     ELSE /\ pc' = "anchor"
          /\ UNCHANGED tables
  /\ idx' = 1
  /\ queries' = <<>>
  /\ UNCHANGED <<max_links, all_data, rowvars, driver, acquired, quit_calls, raised,
                 year_elements, sel, expand, table, csel, csv, tried, handled>>

\* tables[:3] taken whole
FallbackTables_All(tbls) == tbls

\* tables[:3]
FallbackTables(tbls) == SubSeq(tbls, 1, Min(FallbackLimit, Len(tbls)))

\* self.all_data = year_data
Extend_Assign(data, year_data) == year_data

\* self.all_data.extend(year_data)
Extend(data, year_data) == data \o year_data

\* for i, table in enumerate(tables[:3]): one table of the fallback
FallbackTable ==
  /\ pc = "fallback"
  /\ \E broken \in BOOLEAN :
       LET t   == FallbackTables(tables)[idx].id
           out == _extract_table_data(TableContent(t), "Table_" \o ToString(idx - 1),
                                      max_links, broken)
       IN  /\ all_data' = Extend(all_data, out.data)
           /\ max_links' = out.max_links
           /\ handled' = Append(handled, [unit |-> t, table |-> t, data |-> out.data])
  /\ IF idx = Len(FallbackTables(tables))
     THEN pc' = "save" /\ UNCHANGED idx
     ELSE idx' = idx + 1 /\ UNCHANGED pc
  /\ UNCHANGED <<rowvars, driver, acquired, quit_calls, raised, year_elements, sel,
                 expand, table, csel, tables, csv, queries, tried>>

\* the state of the loop after the anchor in hand: the next anchor, or the return
NextAnchor ==
  /\ IF idx = Len(year_elements)
     THEN pc' = "save" /\ UNCHANGED idx
     ELSE pc' = "anchor" /\ idx' = idx + 1
  /\ expand' = NoExpand
  /\ table' = NoTable
  /\ csel' = 1
  /\ tried' = <<>>

\* year_text = self._clean_text(year_elem.text); when reading the text raises,
\* the handler of the loop body logs and continues
AnchorText ==
  /\ pc = "anchor"
  /\ \/ /\ pc' = "expand"
        /\ UNCHANGED <<idx, expand, table, csel, tried, handled>>
     \/ /\ NextAnchor
        /\ handled' = Append(handled, [unit |-> year_elements[idx], table |-> NoTable,
                                       data |-> <<>>])
  /\ UNCHANGED <<max_links, all_data, rowvars, driver, acquired, quit_calls, raised,
                 year_elements, sel, tables, csv, queries>>

\* the expansion step with the test `if is_expanded != "true":`
ExpandOutcome_ClickUnlessExpanded(is_expanded, fails) ==
  IF fails = "attribute"
  THEN [aria |-> "unread", clicks |-> 0, slept |-> FALSE, failed |-> TRUE]
  ELSE IF is_expanded = "true"
  THEN [aria |-> is_expanded, clicks |-> 0, slept |-> FALSE, failed |-> FALSE]
  ELSE IF fails = "click"
  THEN [aria |-> is_expanded, clicks |-> 1, slept |-> FALSE, failed |-> TRUE]
  ELSE [aria |-> is_expanded, clicks |-> 1, slept |-> TRUE, failed |-> FALSE]

\* the expansion step: the aria-expanded value read, the clicks issued, whether
\* time.sleep(2) ran, whether the step ended in its except clause.  fails says
\* which call raises: get_attribute, the click script, or none
ExpandOutcome(is_expanded, fails) ==
  IF fails = "attribute"
  THEN [aria |-> "unread", clicks |-> 0, slept |-> FALSE, failed |-> TRUE]
  ELSE IF is_expanded # "false"
  THEN [aria |-> is_expanded, clicks |-> 0, slept |-> FALSE, failed |-> FALSE]
  ELSE IF fails = "click"
  THEN [aria |-> is_expanded, clicks |-> 1, slept |-> FALSE, failed |-> TRUE]
  ELSE [aria |-> is_expanded, clicks |-> 1, slept |-> TRUE, failed |-> FALSE]

\* "Try to click/expand the year section"
Expand ==
  /\ pc = "expand"
  /\ \E is_expanded \in {"false", "true", "null"}, fails \in {"no", "attribute", "click"} :
       expand' = ExpandOutcome(is_expanded, fails)
  /\ pc' = "s1"
  /\ UNCHANGED <<max_links, all_data, rowvars, driver, acquired, quit_calls, raised,
                 year_elements, sel, idx, table, csel, tables, csv, queries, tried,
                 handled>>

\* a strategy that runs whatever the earlier ones found
NeedsTable_Always(t) == TRUE

\* if not table:
NeedsTable(t) == t = NoTable

\* Strategy 1: a table under the anchor's parent; found = NoTable when the lookup
\* raises
Strategy1 ==
  /\ pc = "s1"
  /\ \E found \in TableIds \cup {NoTable} :
       /\ table' = found
       /\ tried' = Append(tried, [strategy |-> 1, found |-> found])
  /\ expand' = NoExpand
  /\ pc' = "s2"
  /\ UNCHANGED <<max_links, all_data, rowvars, driver, acquired, quit_calls, raised,
                 year_elements, sel, idx, csel, tables, csv, queries, handled>>

\* the next siblings of an anchor: elements that are no table (NoTable), with at
\* most one table, at the end
SiblingChains ==
  {[n \in 1..m |-> IF n = m THEN t ELSE NoTable] :
     m \in 0..(SiblingSteps + 1), t \in TableIds \cup {NoTable}}

RECURSIVE WalkSiblings(_, _)
\* for _ in range(5): current_element = nextElementSibling; a table ends the walk,
\* and so does the exception of asking a null element for its sibling
WalkSiblings(chain, steps) ==
  IF steps = 0 \/ chain = <<>> THEN NoTable
  ELSE IF Head(chain) # NoTable THEN Head(chain)
  ELSE WalkSiblings(Tail(chain), steps - 1)

\* Strategy 2: a table among the next siblings
Strategy2 ==
  /\ pc = "s2"
  /\ IF NeedsTable(table)
     THEN \E chain \in SiblingChains :
            LET found == WalkSiblings(chain, SiblingSteps)
            IN  /\ table' = found
                /\ tried' = Append(tried, [strategy |-> 2, found |-> found])
     ELSE UNCHANGED <<table, tried>>
  /\ pc' = "s3"
  /\ csel' = 1
  /\ UNCHANGED <<max_links, all_data, rowvars, driver, acquired, quit_calls, raised,
                 year_elements, sel, idx, expand, tables, csv, queries, handled>>

\* what one content selector finds: no element, a hidden one, a displayed one
\* without a table, or a displayed one with a table
ContentAreas ==
  {[kind |-> k, table |-> NoTable] : k \in {"absent", "hidden", "displayed"}}
  \cup {[kind |-> "displayed", table |-> t] : t \in TableIds}

\* Strategy 3, one selector of content_selectors
Strategy3 ==
  /\ pc = "s3"
  /\ IF NeedsTable(table)
     THEN \E content_area \in ContentAreas :
            LET found == IF content_area.kind = "displayed" THEN content_area.table
                         ELSE NoTable
                last  == found # NoTable \/ csel = Len(content_selectors)
            IN  /\ table' = found
                /\ IF last
                   THEN /\ tried' = Append(tried, [strategy |-> 3, found |-> found])
                        /\ pc' = "s4"
                        /\ UNCHANGED csel
                   ELSE /\ csel' = csel + 1
                        /\ UNCHANGED <<pc, tried>>
     ELSE /\ pc' = "s4"
          /\ UNCHANGED <<table, tried, csel>>
  /\ UNCHANGED <<max_links, all_data, rowvars, driver, acquired, quit_calls, raised,
                 year_elements, sel, idx, expand, tables, csv, queries, handled>>

\* for t in all_tables: if t.is_displayed(): table = t; break
FirstDisplayed(all_tables) ==
  IF \E n \in DOMAIN all_tables : all_tables[n].displayed
  THEN all_tables[CHOOSE n \in DOMAIN all_tables :
                    /\ all_tables[n].displayed
                    /\ \A m \in 1..(n - 1) : ~all_tables[m].displayed].id
  ELSE NoTable

\* Strategy 4: the first displayed table of the page
Strategy4 ==
  /\ pc = "s4"
  /\ IF NeedsTable(table)
     THEN \E n \in 0..NumTables, fails \in BOOLEAN : \E displayed \in [1..n -> BOOLEAN] :
            LET all_tables == [i \in 1..n |-> [id |-> i, displayed |-> displayed[i]]]
                found == IF fails THEN NoTable ELSE FirstDisplayed(all_tables)
            IN  /\ table' = found
                /\ tried' = Append(tried, [strategy |-> 4, found |-> found])
     ELSE UNCHANGED <<table, tried>>
  /\ pc' = "extract"
  /\ UNCHANGED <<max_links, all_data, rowvars, driver, acquired, quit_calls, raised,
                 year_elements, sel, idx, expand, csel, tables, csv, queries, handled>>

\* the end of _extract_year_data, self.all_data.extend(year_data), and the step
\* of the loop to the next anchor
ExtractYear ==
  /\ pc = "extract"
  /\ \E broken \in BOOLEAN :
       LET year == YearLabel(CleanChars(ElemText(year_elements[idx])))
           out  == IF table = NoTable THEN [data |-> <<>>, max_links |-> max_links]
                   ELSE _extract_table_data(TableContent(table), year, max_links, broken)
       IN  /\ all_data' = Extend(all_data, out.data)
           /\ max_links' = out.max_links
           /\ handled' = Append(handled, [unit |-> year_elements[idx], table |-> table,
                                          data |-> out.data])
  /\ NextAnchor
  /\ UNCHANGED <<rowvars, driver, acquired, quit_calls, raised, year_elements, sel,
                 tables, csv, queries>>

\* ASICGazetteScraper.save_to_csv
SaveToCsv ==
  /\ pc = "save"
  /\ IF all_data = <<>>
     THEN UNCHANGED <<csv, raised>>
     ELSE \/ LET headers == _generate_csv_headers(max_links)
             IN  /\ csv' = [headers |-> headers,
                            rows |-> [n \in 1..Len(all_data) |->
                                        _normalize_row_data(all_data[n], headers)]]
                 /\ UNCHANGED raised
          \/ \* opening or writing the file raises
             /\ raised' = TRUE
             /\ UNCHANGED csv
  /\ pc' = "exit"
  /\ UNCHANGED <<max_links, all_data, rowvars, driver, acquired, quit_calls,
                 year_elements, sel, idx, expand, table, csel, tables, queries, tried,
                 handled>>

\* __exit__ and _cleanup
Cleanup ==
  /\ pc = "exit"
  /\ quit_calls' = IF driver # NoDriver THEN quit_calls + 1 ELSE quit_calls
  /\ pc' = "done"
  /\ UNCHANGED <<max_links, all_data, rowvars, driver, acquired, raised, year_elements,
                 sel, idx, expand, table, csel, tables, csv, queries, tried, handled>>

Next ==
  \/ SetupDriver \/ LoadPage
  \/ TrySelector \/ Approach2 \/ Approach3 \/ Dispatch
  \/ FallbackTable
  \/ AnchorText \/ Expand
  \/ Strategy1 \/ Strategy2 \/ Strategy3 \/ Strategy4
  \/ ExtractYear
  \/ SaveToCsv \/ Cleanup

Spec == Init /\ [][Next]_vars

(***************************************************************************)
(* The row loop of _extract_table_data, one row at a time.                 *)
(***************************************************************************)
InitRow == Init

\* row_data = self._extract_row_data(row, year)
ParseRow ==
  /\ phase = "idle"
  /\ \E r \in Rows, year \in Years :
       LET out == _extract_row_data(r, year, max_links)
       IN  /\ row' = r
           /\ result' = out.result
           /\ max_links' = out.max_links
  /\ before' = max_links
  /\ phase' = "parsed"
  /\ UNCHANGED <<all_data, tbl, tdata, runvars>>

\* for row in rows: the loop moves on to the next row
NextRow ==
  /\ phase = "parsed"
  /\ phase' = "idle"
  /\ row' = None
  /\ result' = None
  /\ before' = max_links
  /\ UNCHANGED <<max_links, all_data, tbl, tdata, runvars>>

NextRowSpec == ParseRow \/ NextRow

SpecRow == InitRow /\ [][NextRowSpec]_vars

(***************************************************************************)
(* The Table Parser, one table at a time.                                  *)
(***************************************************************************)
\* rows in one table
MaxRows == 2

\* the rows the tables are made of: two that parse, one of 3 cells, one whose
\* find_elements raises, one whose date cell cannot be read, one header row
TableRows ==
  { MkRow(Full(MaxLinks, "a"), Plain("b"), <<TextOnly>>),
    MkRow(Plain("a"), TextOnly, <<Plain("o"), MkCell(<<"F", "o", "o">>, <<"full">>, "t")>>),
    [cells |-> <<DateCell, Plain("a"), Plain("b")>>, stale |-> FALSE, th |-> FALSE],
    [MkRow(Plain("a"), Plain("b"), <<Plain("o")>>) EXCEPT !.stale = TRUE],
    [MkRow(Plain("a"), Plain("b"), <<Plain("o")>>) EXCEPT !.cells[1].detached = TRUE],
    [cells |-> <<>>, stale |-> FALSE, th |-> TRUE] }

\* the tables _extract_table_data is run on
Tables ==
  {[tbody |-> b, rows |-> rs] :
     b \in BOOLEAN, rs \in UNION {[1..n -> TableRows] : n \in 0..MaxRows}}

InitTable == Init

\* table_data = self._extract_table_data(table, year)
ParseTable ==
  /\ phase = "idle"
  /\ \E t \in Tables, year \in Years, broken \in BOOLEAN :
       LET out == _extract_table_data(t, year, max_links, broken)
       IN  /\ tbl' = [table |-> t, year |-> year, broken |-> broken]
           /\ tdata' = out.data
           /\ max_links' = out.max_links
  /\ phase' = "table"
  /\ UNCHANGED <<all_data, row, result, before, runvars>>

\* the caller moves on to the next table
NextTable ==
  /\ phase = "table"
  /\ phase' = "idle"
  /\ tbl' = None
  /\ tdata' = <<>>
  /\ UNCHANGED <<max_links, all_data, row, result, before, runvars>>

NextTableSpec == ParseTable \/ NextTable

SpecTable == InitTable /\ [][NextTableSpec]_vars

(***************************************************************************)
(* Claims about one call of the Row Parser, checked under SpecRow.         *)
(***************************************************************************)
\* a Record came back from the last call
Returned == phase = "parsed" /\ result # None

\* the indices a Record of the model can carry
Indices == 0..(2 * MaxLinks + 2)

\* the occurrences of a logical column a Record carries: the indices with a
\* title/text slot or a URL slot written
Slots(rec, col) ==
  IF col = Notes
  THEN {i \in Indices : NotesKey(i) \in DOMAIN rec \/ NotesUrlKey(i) \in DOMAIN rec}
  ELSE {i \in Indices : TitleKey(col, i) \in DOMAIN rec \/ UrlKey(col, i) \in DOMAIN rec}

\* C1: every Record returned for a row of at least 4 cells carries the index-0
\* fields of all three logical columns.
C1_IndexZeroFields ==
  Returned =>
    {"ASIC Gazette_title", "ASIC Gazette_Url",
     "Business Gazette_title", "Business Gazette_Url",
     "Other / Notes", "Other / Notes_URL"} \subseteq DOMAIN result

\* C2: after a row was parsed, max_links of every logical column is the maximum
\* of its value before the call and the number of occurrences the Record carries.
C2_MaxLinksFollowsRecord ==
  Returned =>
    \A c \in Columns : max_links[c] = Max(before[c], Cardinality(Slots(result, c)))

\* the cleaned text read from a cell; a cell whose reading raises reads as blank
ReadText(cell) == IF cell.detached THEN "" ELSE _clean_text(VisibleText(cell))

\* the resolved hrefs of the links of a cell that have one, in document order; a
\* cell whose reading raises reads as without links
ReadLinks(cell) ==
  IF cell.detached THEN <<>>
  ELSE LET withHref == SelectSeq(cell.links, LAMBDA l : l.href # <<>>)
       IN  [n \in 1..Len(withHref) |-> _resolve_url(Strip(withHref[n].href))]

\* C10: for a row of 5 or more cells, Other / Notes is the non-empty cleaned texts
\* of cells 4 and 5 joined by ". ", the URL slots 0, 1, 2, ... hold the links of
\* cell 4 and then those of cell 5, and two blank cells give "" and "".
C10_OtherNotesMerged ==
  (Returned /\ Len(row.cells) >= 5) =>
    LET t4   == ReadText(row.cells[4])
        t5   == ReadText(row.cells[5])
        urls == ReadLinks(row.cells[4]) \o ReadLinks(row.cells[5])
    IN  IF t4 = "" /\ t5 = ""
        THEN /\ result["Other / Notes"] = ""
             /\ result["Other / Notes_URL"] = ""
             /\ Slots(result, Notes) = {0}
        ELSE /\ result["Other / Notes"] =
                  (IF t4 = "" THEN t5 ELSE IF t5 = "" THEN t4 ELSE t4 \o ". " \o t5)
             /\ \A n \in 1..Len(urls) : result[NotesUrlKey(n - 1)] = urls[n]
             /\ urls = <<>> => result["Other / Notes_URL"] = ""
             /\ Slots(result, Notes) = 0..(Max(Len(urls), 1) - 1)

\* C10 witness: a 5-cell row with text and a link in cell 4 and text and two
\* links in cell 5 was parsed
C10_Witness ==
  /\ Returned
  /\ Len(row.cells) = 5
  /\ ReadText(row.cells[4]) # "" /\ Len(ReadLinks(row.cells[4])) = 1
  /\ ReadText(row.cells[5]) # "" /\ Len(ReadLinks(row.cells[5])) = 2
  /\ result["Other / Notes_URL_2"] = "https://x.org/t2"

\* the Gazette cell of a column in a row
GazetteCell(r, col) == IF col = ASIC THEN r.cells[2] ELSE r.cells[3]

\* the URL of a hyperlink: its resolved href, "" without one
UrlOf(link) == IF link.href = <<>> THEN "" ELSE _resolve_url(Strip(link.href))

\* C12: for a Gazette cell with hyperlinks, the Record holds one occurrence per
\* hyperlink, in document order; the title of occurrence i is the cleaned text
\* of the i-th hyperlink and its URL the resolved href of the same hyperlink,
\* "" when it has none.
C12_OccurrencePerLink ==
  Returned =>
    \A col \in {ASIC, Business} :
      LET cell  == GazetteCell(row, col)
          links == cell.links
      IN  (~cell.detached /\ links # <<>>) =>
            /\ Slots(result, col) = 0..(Len(links) - 1)
            /\ \A i \in 1..Len(links) :
                 /\ TitleKey(col, i - 1) \in DOMAIN result
                 /\ UrlKey(col, i - 1) \in DOMAIN result
                 /\ result[TitleKey(col, i - 1)] = _clean_text(links[i].text)
                 /\ result[UrlKey(col, i - 1)] = UrlOf(links[i])

(***************************************************************************)
(* Claims about a run, checked under Spec.                                 *)
(***************************************************************************)
\* the elements of a sequence
Range(seq) == {seq[n] : n \in DOMAIN seq}

\* the file was written
Written == csv # None

\* C3: every field name of every accumulated Record is in the header list
\* computed from max_links, and the rows written keep every field of their
\* Record with its value.
C3_FieldsInHeaders ==
  /\ \A n \in DOMAIN all_data :
       DOMAIN all_data[n] \subseteq Range(_generate_csv_headers(max_links))
  /\ Written =>
       \A n \in DOMAIN all_data : \A k \in DOMAIN all_data[n] :
         <<k, all_data[n][k]>> \in Range(csv.rows[n])

\* C3 witness: a Record with a surplus Other / Notes_URL_1, and no text field
\* of that index, was written
C3_Witness ==
  /\ Written
  /\ \E n \in DOMAIN all_data :
       /\ "Other / Notes_URL_1" \in DOMAIN all_data[n]
       /\ "Other / Notes_1" \notin DOMAIN all_data[n]
       /\ <<"Other / Notes_URL_1", all_data[n]["Other / Notes_URL_1"]>>
            \in Range(csv.rows[n])

\* the largest number of occurrences of a column over the accumulated Records
Largest(col) ==
  LET counts == {Cardinality(Slots(all_data[n], col)) : n \in DOMAIN all_data}
  IN  IF counts = {} THEN 0 ELSE CHOOSE c \in counts : \A d \in counts : d <= c

\* the index-0 pair of a column and its indexed pairs for i = 1 .. n - 1
ColumnHeaders(col, n) ==
  IF col = Notes
  THEN <<NotesKey(0), NotesUrlKey(0)>>
       \o [j \in 1..(2 * (Max(n, 1) - 1)) |->
             IF j % 2 = 1 THEN NotesKey((j + 1) \div 2) ELSE NotesUrlKey(j \div 2)]
  ELSE <<TitleKey(col, 0), UrlKey(col, 0)>>
       \o [j \in 1..(2 * (Max(n, 1) - 1)) |->
             IF j % 2 = 1 THEN TitleKey(col, (j + 1) \div 2) ELSE UrlKey(col, j \div 2)]

\* C4: the header list written is Year, Date and then, for ASIC Gazette,
\* Business Gazette and Other / Notes in this order, the index-0 pair and the
\* indexed pairs up to the largest occurrence count of the column over all rows,
\* less one; every row written has exactly the header names as keys, in header
\* order, with "" for a header its Record did not populate.
C4_HeadersAndRows ==
  Written =>
    /\ csv.headers = <<"Year", "Date">>
                     \o ColumnHeaders(ASIC, Largest(ASIC))
                     \o ColumnHeaders(Business, Largest(Business))
                     \o ColumnHeaders(Notes, Largest(Notes))
    /\ Len(csv.rows) = Len(all_data)
    /\ \A n \in DOMAIN csv.rows :
         /\ Len(csv.rows[n]) = Len(csv.headers)
         /\ \A k \in DOMAIN csv.headers :
              csv.rows[n][k] =
                <<csv.headers[k],
                  IF csv.headers[k] \in DOMAIN all_data[n]
                  THEN all_data[n][csv.headers[k]] ELSE "">>

\* C5: at the end of a run, on every exit path, the session acquired was
\* released exactly once, and no session is ever released twice.
C5_ReleasedExactlyOnce ==
  /\ quit_calls <= acquired
  /\ pc = "done" => quit_calls = acquired

\* the queries of the discovery cascade in their fixed order: the selectors of
\* Approach 1, the text query of Approach 2, the containers of Approach 3
Cascade == selectors_to_try \o <<"//*[text()]", "[class*='accordion']">>

\* discovery is under way, or just over
Discovering == pc \in {"selectors", "approach2", "approach3", "dispatch"}

\* C6: the queries of discovery run in the fixed order, one runs only when every
\* earlier one yielded nothing, and the anchors found are exactly what the first
\* query that yielded an element yielded; no anchor is returned only when every
\* query ran and yielded nothing.
C6_FirstHitCascade ==
  Discovering =>
    LET n == Len(queries)
    IN  /\ n <= Len(Cascade)
        /\ \A i \in 1..n : queries[i].by = Cascade[i]
        /\ \A i \in 1..(n - 1) : queries[i].added = <<>>
        /\ year_elements = (IF n = 0 THEN <<>> ELSE queries[n].added)
        /\ (pc = "dispatch" /\ year_elements = <<>>) => n = Len(Cascade)

\* C6 witness: discovery ended with the anchors of the third selector, the two
\* selectors before it having yielded nothing
C6_Witness ==
  /\ pc = "dispatch"
  /\ Len(queries) = 3
  /\ queries[3].by = ".year-header"
  /\ Len(year_elements) = 2

\* association is past its first strategy
Associating == pc \in {"s2", "s3", "s4", "extract"}

\* the table a sibling walk is to find: the first table among the first 5 next
\* siblings
WithinFive(chain) ==
  LET hits == {n \in 1..Min(5, Len(chain)) : chain[n] # NoTable}
  IN  IF hits = {} THEN NoTable ELSE chain[CHOOSE n \in hits : \A m \in hits : n <= m]

\* C7: the association strategies run in the order 1, 2, 3, 4, each only when
\* the ones before it found no table; the table handed to the Table Parser is
\* the one the last strategy run found; the sibling walk looks at 5 siblings at
\* most; and an anchor left without a table contributes no Record.
C7_AssociationCascade ==
  /\ Associating =>
       LET n == Len(tried)
       IN  /\ n >= 1
           /\ \A i \in 1..n : tried[i].strategy = i
           /\ \A i \in 1..(n - 1) : tried[i].found = NoTable
           /\ table = tried[n].found
           /\ (pc = "extract" /\ table = NoTable) => n = 4
  /\ \A chain \in SiblingChains : WalkSiblings(chain, SiblingSteps) = WithinFive(chain)
  /\ year_elements # <<>> =>
       \A n \in DOMAIN handled : handled[n].table = NoTable => handled[n].data = <<>>

\* C7 witness: the first two strategies found nothing, the third found a table,
\* and the fourth did not run
C7_Witness ==
  /\ pc = "extract"
  /\ Len(tried) = 3
  /\ tried[3].strategy = 3
  /\ table # NoTable

\* the fallback over the page's tables ran
FellBack == year_elements = <<>> /\ pc \in {"fallback", "save", "exit", "done"}

\* the Year fields of a sequence of Records
YearsOf(data) == {data[n]["Year"] : n \in DOMAIN data}

InLoop == pc \in {"anchor", "expand", "s1", "s2", "s3", "s4", "extract"}

\* the anchor loop is over
LoopDone == year_elements # <<>> /\ pc \in {"save", "exit", "done"}

\* C9: the anchors are processed once each in discovery order, whatever fails
\* for one of them, and all_data is the concatenation of their Record sequences
\* in that order.
C9_EveryAnchorOnce ==
  (InLoop \/ LoopDone) =>
    /\ InLoop => Len(handled) = idx - 1
    /\ LoopDone => Len(handled) = Len(year_elements)
    /\ \A n \in DOMAIN handled : handled[n].unit = year_elements[n]
    /\ all_data = Flatten([n \in DOMAIN handled |-> handled[n].data])

\* C9 witness: the loop is over; parsing the table of the first of two anchors
\* failed, and the second anchor gave Records
C9_Witness ==
  /\ LoopDone
  /\ Len(year_elements) = 2
  /\ handled[1].table # NoTable
  /\ handled[1].data = <<>>
  /\ handled[2].data # <<>>

\* association of the anchor in hand is about to start
AssociationStarts == pc = "s1"

\* C13: while the expansion step of an anchor runs, association has not
\* started; when association starts, the anchor was clicked at most once and
\* only on aria-expanded = "false", a click that worked was followed by the
\* pause, and a collapsed anchor whose step did not fail was clicked; the
\* expansion step, failed or not, is always followed by association.
C13_ExpandBeforeAssociation ==
  /\ [](/\ pc = "expand" => (tried = <<>> /\ table = NoTable)
        /\ AssociationStarts =>
             /\ expand.clicks <= 1
             /\ expand.clicks = 1 => expand.aria = "false"
             /\ expand.slept <=> (expand.clicks = 1 /\ ~expand.failed)
             /\ (expand.aria = "false" /\ ~expand.failed) => expand.clicks = 1)
  /\ [][pc = "expand" => pc' = "s1"]_vars

\* C13 witness: association starts for an anchor that was collapsed, was
\* clicked once, and whose click raised
C13_Witness ==
  /\ AssociationStarts
  /\ expand.aria = "false"
  /\ expand.clicks = 1
  /\ expand.failed

\* C14: over a run with anchors, two distinct anchors are never associated
\* with the same table, and the Records of one table never carry more than one
\* year label.
C14_DistinctTables ==
  year_elements # <<>> =>
    \A m, n \in DOMAIN handled :
      (m # n /\ handled[m].table # NoTable /\ handled[m].table = handled[n].table) =>
        /\ handled[m].unit = handled[n].unit
        /\ Cardinality(YearsOf(handled[m].data) \cup YearsOf(handled[n].data)) <= 1

(***************************************************************************)
(* Claims about one call of the Table Parser, checked under SpecTable.     *)
(***************************************************************************)
\* the data rows of a table: the rows of its tbody, or its rows without th
DataRows(t) == IF t.tbody THEN t.rows ELSE SelectSeq(t.rows, LAMBDA r : ~r.th)

\* parsing a row fails: its cells cannot be listed, or its date cannot be read
RowFails(r) == r.stale \/ (r.cells # <<>> /\ r.cells[1].detached)

\* C11: the result of _extract_table_data, for a table whose rows can be
\* listed, is the Records of exactly the data rows of at least 4 cells whose
\* parsing did not fail, in document order; a short or failing row leaves the
\* Records of the other rows in place.
C11_RecordsOfGoodRows ==
  (phase = "table" /\ ~tbl.broken) =>
    LET kept == SelectSeq(DataRows(tbl.table),
                          LAMBDA r : Len(r.cells) >= 4 /\ ~RowFails(r))
    IN  tdata = [n \in 1..Len(kept) |->
                   _extract_row_data(kept[n], tbl.year, max_links).result]

====
